---- MODULE Spec2Model ----
(***************************************************************************)
(* Greedy topic-diversification re-ranker of                                *)
(* re_ranking_topic_diversification.ipynb (the cell at lines 347-384).      *)
(*                                                                          *)
(* A row of the data frame is represented by its position in the input     *)
(* candidate list (1 = highest score); its columns are read from            *)
(* candidates.  moviesToRerank and reRankedMovies are sequences of rows.    *)
(* One step of the model is one iteration of the while loop (Phase 1), the  *)
(* re-sort between the loops, or one iteration of the for loop (Phase 2).   *)
(***************************************************************************)
EXTENDS Integers, Sequences, FiniteSets

\* Largest number of candidate rows in moviesToRerank at the start.
MaxCand == 3
\* Largest value of recListSize that is tried (the smallest is -1).
MaxSlate == 3

\* The genre labels that may occur in the Genres column.
Genre == {"Action", "Drama"}
\* A larger vocabulary, for the runs with stable sorts.
Genre3 == {"Action", "Drama", "Comedy"}

VARIABLES
    candidates,      \* the input rows: [Title, score, Genres], by descending score
    recListSize,     \* the target length of the list
    genresInList,    \* the genres present in the input rows
    uncoveredGenres, \* the genres of the rows picked so far (the code's name)
    movieIndex,      \* the number of rows appended to reRankedMovies
    reRankedMovies,  \* the output, a sequence of rows
    moviesToRerank,  \* the rows still in the working data frame, in frame order
    index,           \* the number of rows the Phase 2 iterrows() has visited
    pc,              \* "phase1", "phase2", "done" or "raised"
    exception,       \* the exception that ended the cell, "none" if none
    stableSort       \* whether the sorts of this run keep tied rows in frame order

vars == <<candidates, recListSize, genresInList, uncoveredGenres, movieIndex,
          reRankedMovies, moviesToRerank, index, pc, exception, stableSort>>

Range(s) == {s[i] : i \in DOMAIN s}

Min(a, b) == IF a <= b THEN a ELSE b

-----------------------------------------------------------------------------
(* The inputs.                                                              *)

\* Titles are compared only for equality: the rows have the titles 1..n, or
\* one row repeats the title of an earlier row.
TitleSeqs(n) ==
    {[k \in 1..n |-> k]} \cup
    {[k \in 1..n |-> IF k = ij[2] THEN ij[1] ELSE k] :
        ij \in {x \in (1..n) \X (1..n) : x[1] < x[2]}}

\* Scores are compared only by the sorts: the list is by descending score
\* (topRated is sort_values('score', ascending=False)), neighbours tie or not.
ScoreSeqs(n) ==
    {s \in [1..n -> 1..n] :
        /\ n > 0 => s[n] = 1
        /\ \A i \in 1..(n-1) : s[i] - s[i+1] \in {0, 1}}

CandidateLists(genres) ==
    UNION {
        {[i \in 1..n |-> [Title |-> t[i], score |-> s[i], Genres |-> g[i]]] :
            t \in TitleSeqs(n), s \in ScoreSeqs(n), g \in [1..n -> SUBSET genres]}
        : n \in 0..MaxCand}

-----------------------------------------------------------------------------
(* Helpers of the cell.                                                     *)

\* get_unique_items_in_column(dataset, 'Genres') over the rows of dataset.
get_unique_items_in_column(dataset) ==
    UNION {candidates[r].Genres : r \in Range(dataset)}

\* The nGenres column: len(set(x).difference(uncoveredGenres)).
nGenres(r, covered) == Cardinality(candidates[r].Genres \ covered)

\* The orders of the rows of df.
Orderings(df) ==
    {p \in [1..Len(df) -> Range(df)] :
        \A i, j \in 1..Len(df) : p[i] = p[j] => i = j}

\* The position of row r in df.
Pos(df, r) == CHOOSE k \in 1..Len(df) : df[k] = r

\* sort_values(..., ascending=False) has the default kind 'quicksort', which
\* promises no order among rows with equal keys; on a short column numpy's
\* quicksort is an insertion sort and pandas' descending sort then keeps equal
\* keys in frame order.  stableSort says which of the two a run shows: the
\* rows with equal keys (the pairs in tied) stay in the order of df, or come
\* in any.
TieOrderOk(p, df, tied) ==
    stableSort =>
        \A i, j \in 1..Len(df) :
            (i < j /\ <<p[i], p[j]>> \in tied) => Pos(df, p[i]) < Pos(df, p[j])

\* A sort by ascending nGenres (ascending=False left out).
sort_values_nGenres_ascending(df, covered) ==
    {p \in Orderings(df) :
        \A i, j \in 1..Len(df) :
            i < j => nGenres(p[i], covered) <= nGenres(p[j], covered)}

\* moviesToRerank.sort_values('nGenres', ascending=False).reset_index(drop=True)
sort_values_nGenres(df, covered) ==
    {p \in Orderings(df) :
        /\ \A i, j \in 1..Len(df) :
              i < j => nGenres(p[i], covered) >= nGenres(p[j], covered)
        /\ TieOrderOk(p, df, {ab \in Range(df) \X Range(df) :
                                 nGenres(ab[1], covered) = nGenres(ab[2], covered)})}

\* The frame left as Phase 1 ordered it (the sort by score left out).
sort_values_score_missing(df) == {df}

\* moviesToRerank.sort_values('score', ascending=False).reset_index(drop=True)
sort_values_score(df) ==
    {p \in Orderings(df) :
        /\ \A i, j \in 1..Len(df) :
              i < j => candidates[p[i]].score >= candidates[p[j]].score
        /\ TieOrderOk(p, df, {ab \in Range(df) \X Range(df) :
                                 candidates[ab[1]].score = candidates[ab[2]].score})}

\* drop of the last row instead of row 0.
drop_last(df) == SubSeq(df, 1, Len(df) - 1)

\* drop left out.
drop_nothing(df) == df

\* moviesToRerank.drop([0]) after reset_index: the first row goes.
drop0(df) == Tail(df)

\* The whole label vocabulary instead of the genres of the list.
genresUniverse(dataset) == Genre

\* genresInList = get_unique_items_in_column(moviesToRerank, 'Genres')
genresInListOf(dataset) == get_unique_items_in_column(dataset)

\* The loop guard with "or" for "and".
WhileGuardOr ==
    \/ genresInList \ uncoveredGenres # {}
    \/ movieIndex < recListSize

\* while genresInList.difference(uncoveredGenres) and movieIndex < recListSize
WhileGuard ==
    /\ genresInList \ uncoveredGenres # {}
    /\ movieIndex < recListSize

\* list(reRankedMovies.Title)
Titles(frame) == {candidates[r].Title : r \in Range(frame)}

-----------------------------------------------------------------------------
(* The cell.                                                                *)

\* The state after lines 347-356, for an input list over the genres given.
Start(genres) ==
    /\ candidates \in CandidateLists(genres)
    /\ recListSize \in (-1)..MaxSlate
    /\ moviesToRerank = [i \in 1..Len(candidates) |-> i]
    /\ genresInList = genresInListOf(moviesToRerank)
    /\ uncoveredGenres = {}
    /\ movieIndex = 0
    /\ reRankedMovies = <<>>
    /\ index = 0
    /\ pc = "phase1"
    /\ exception = "none"

\* Ties in any order: every order the sorts may return.
Init == Start(Genre) /\ stableSort = FALSE

\* Ties in frame order: the order the sorts return on short frames.
InitStable == Start(Genre3) /\ stableSort = TRUE

\* One iteration of the while loop.  moviesToRerank.iloc[0] of an empty frame
\* raises IndexError.
Phase1Step ==
    /\ pc = "phase1"
    /\ WhileGuard
    /\ IF moviesToRerank = <<>>
       THEN /\ pc' = "raised"
            /\ exception' = "IndexError"
            /\ UNCHANGED <<uncoveredGenres, movieIndex, reRankedMovies, moviesToRerank>>
       ELSE \E sorted \in sort_values_nGenres(moviesToRerank, uncoveredGenres) :
              LET topMovie == sorted[1] IN
                /\ reRankedMovies' = Append(reRankedMovies, topMovie)
                /\ uncoveredGenres' = uncoveredGenres \cup candidates[topMovie].Genres
                /\ movieIndex' = movieIndex + 1
                /\ moviesToRerank' = drop0(sorted)
                /\ UNCHANGED <<pc, exception>>
    /\ UNCHANGED <<stableSort, candidates, recListSize, genresInList, index>>

\* The while guard fails: the frame is sorted by score for the fill loop.
Phase1Exit ==
    /\ pc = "phase1"
    /\ ~WhileGuard
    /\ moviesToRerank' \in sort_values_score(moviesToRerank)
    /\ pc' = "phase2"
    /\ UNCHANGED <<stableSort, candidates, recListSize, genresInList, uncoveredGenres,
                   movieIndex, reRankedMovies, index, exception>>

\* for ... iterrows(): the next row, when there is one.
HasRow == pc = "phase2" /\ index < Len(moviesToRerank)
movie == moviesToRerank[index + 1]

\* if movieIndex >= recListSize: break
Phase2Break ==
    /\ HasRow
    /\ movieIndex >= recListSize
    /\ pc' = "done"
    /\ UNCHANGED <<stableSort, candidates, recListSize, genresInList, uncoveredGenres,
                   movieIndex, reRankedMovies, moviesToRerank, index, exception>>

\* reRankedMovies is still pd.DataFrame(), which has no column Title:
\* reRankedMovies.Title raises AttributeError.
Phase2NoTitleColumn ==
    /\ HasRow
    /\ movieIndex < recListSize
    /\ reRankedMovies = <<>>
    /\ pc' = "raised"
    /\ exception' = "AttributeError"
    /\ UNCHANGED <<stableSort, candidates, recListSize, genresInList, uncoveredGenres,
                   movieIndex, reRankedMovies, moviesToRerank, index>>

\* elif ... and movie.Title not in list(reRankedMovies.Title): append.
\* The row stays in moviesToRerank.
Phase2Append ==
    /\ HasRow
    /\ movieIndex < recListSize
    /\ reRankedMovies # <<>>
    /\ candidates[movie].Title \notin Titles(reRankedMovies)
    /\ reRankedMovies' = Append(reRankedMovies, movie)
    /\ movieIndex' = movieIndex + 1
    /\ index' = index + 1
    /\ UNCHANGED <<stableSort, candidates, recListSize, genresInList, uncoveredGenres,
                   moviesToRerank, pc, exception>>

\* The title is already in reRankedMovies: the row is passed over.
Phase2Skip ==
    /\ HasRow
    /\ movieIndex < recListSize
    /\ reRankedMovies # <<>>
    /\ candidates[movie].Title \in Titles(reRankedMovies)
    /\ index' = index + 1
    /\ UNCHANGED <<stableSort, candidates, recListSize, genresInList, uncoveredGenres,
                   movieIndex, reRankedMovies, moviesToRerank, pc, exception>>

\* iterrows() is exhausted.
Phase2End ==
    /\ pc = "phase2"
    /\ index >= Len(moviesToRerank)
    /\ pc' = "done"
    /\ UNCHANGED <<stableSort, candidates, recListSize, genresInList, uncoveredGenres,
                   movieIndex, reRankedMovies, moviesToRerank, index, exception>>

Next ==
    \/ Phase1Step
    \/ Phase1Exit
    \/ Phase2Break
    \/ Phase2NoTitleColumn
    \/ Phase2Append
    \/ Phase2Skip
    \/ Phase2End

Spec == Init /\ [][Next]_vars

SpecStable == InitStable /\ [][Next]_vars

\* The cell is straight-line sequential code: while a statement remains to be
\* executed the interpreter executes it.
SpecFair == Init /\ [][Next]_vars /\ WF_vars(Next)

-----------------------------------------------------------------------------
(* Vocabulary of the properties.                                            *)

Rows == 1..Len(candidates)

UniqueTitles ==
    \A i, j \in Rows : candidates[i].Title = candidates[j].Title => i = j

ValidInput == UniqueTitles /\ recListSize >= 1

Finished == pc \in {"done", "raised"}

\* Every genre of the input candidate list.
AllGenres == UNION {candidates[r].Genres : r \in Rows}

\* The rows Phase 1 has picked are the first nPhase1 rows of reRankedMovies:
\* each pick leaves moviesToRerank, and Phase 2 removes nothing from it.
nPhase1 == Min(Len(candidates) - Len(moviesToRerank), Len(reRankedMovies))

\* The rows Phase 2 has appended.
Phase2Positions == (nPhase1 + 1)..Len(reRankedMovies)

\* The covered genres and the remaining rows at the k-th Phase 1 selection.
coveredBefore(k) == UNION {candidates[reRankedMovies[i]].Genres : i \in 1..(k-1)}
remainingBefore(k) == Rows \ {reRankedMovies[i] : i \in 1..(k-1)}

score(r) == candidates[r].score

-----------------------------------------------------------------------------
\* C1: for every valid input (unique titles, recListSize >= 1, an empty
\* candidate list included) the cell ends without an error and with a list of
\* exactly min(recListSize, |candidates|) rows.
C1_SizeBound ==
    (ValidInput /\ Finished) =>
        /\ pc = "done"
        /\ Len(reRankedMovies) = Min(recListSize, Len(candidates))

\* C2: when the titles of the candidates are unique, no title occurs twice in
\* reRankedMovies, in any state of Phase 1 and Phase 2.
C2_NoRepeatedTitle ==
    UniqueTitles =>
        \A i, j \in 1..Len(reRankedMovies) :
            candidates[reRankedMovies[i]].Title = candidates[reRankedMovies[j]].Title
                => i = j

\* Both phases have appended rows of an input with unique titles.
C2_Witness ==
    /\ UniqueTitles
    /\ pc = "done"
    /\ nPhase1 >= 1
    /\ Len(reRankedMovies) >= nPhase1 + 2

\* C3 as stated: in every state reRankedMovies and moviesToRerank are disjoint
\* and together hold exactly the candidates.
C3_DisjointFromFrame ==
    /\ Range(reRankedMovies) \cap Range(moviesToRerank) = {}
    /\ Range(reRankedMovies) \cup Range(moviesToRerank) = Rows

\* C3 amended: in every state reRankedMovies and moviesToRerank together hold
\* exactly the candidates, and reRankedMovies is disjoint from the rows still to
\* be considered: all of moviesToRerank during Phase 1, the rows iterrows() has
\* not visited during Phase 2 (the rows Phase 2 appends stay in moviesToRerank).
C3_DisjointFromUnvisited ==
    /\ Range(reRankedMovies) \cup Range(moviesToRerank) = Rows
    /\ pc = "phase1" => index = 0
    /\ Range(reRankedMovies)
          \cap {moviesToRerank[k] : k \in (index + 1)..Len(moviesToRerank)} = {}

\* Phase 1 has picked a row, Phase 2 has appended one and has one left to visit.
C3_Witness ==
    /\ pc = "phase2"
    /\ nPhase1 >= 1
    /\ Len(reRankedMovies) > nPhase1
    /\ index < Len(moviesToRerank)

\* C4: an input with recListSize <= 0 or with a repeated title is rejected with
\* InvalidArgument, and nothing is ever appended to reRankedMovies.
C4_InvalidRejected ==
    (recListSize <= 0 \/ ~UniqueTitles) =>
        /\ reRankedMovies = <<>>
        /\ Finished => exception = "InvalidArgument"

\* C5: on a valid input, each Phase 1 selection is, among the remaining rows
\* that tie on the largest nGenres, the first one in the original score order.
C5_TieBreakOriginalOrder ==
    ValidInput =>
        \A k \in 1..nPhase1 :
            LET cov == coveredBefore(k)
                picked == reRankedMovies[k]
            IN  \A r \in remainingBefore(k) :
                    /\ nGenres(r, cov) <= nGenres(picked, cov)
                    /\ nGenres(r, cov) = nGenres(picked, cov) => picked <= r

\* C6: each Phase 1 selection has an nGenres, counted against the genres
\* covered before the selection, at least that of every row then remaining.
C6_GreedyMax ==
    \A k \in 1..nPhase1 :
        \A r \in remainingBefore(k) :
            nGenres(reRankedMovies[k], coveredBefore(k)) >= nGenres(r, coveredBefore(k))

\* A Phase 1 selection was made while a row with a strictly smaller nGenres
\* remained.
C6_Witness ==
    \E k \in 1..nPhase1 :
        \E r \in remainingBefore(k) :
            nGenres(r, coveredBefore(k)) < nGenres(reRankedMovies[k], coveredBefore(k))

\* C7: Phase 1 selects only while some genre of the candidate list is uncovered
\* and the list is shorter than recListSize, and once Phase 1 has ended every
\* genre of the candidate list is covered or the list has reached recListSize.
C7_Phase1Stops ==
    /\ \A k \in 1..nPhase1 :
          /\ AllGenres \ coveredBefore(k) # {}
          /\ k - 1 < recListSize
    /\ pc # "phase1" =>
          \/ AllGenres \subseteq uncoveredGenres
          \/ Len(reRankedMovies) >= recListSize

\* Phase 1 ended because every genre is covered, with the list not yet full
\* and rows left.
C7_Witness ==
    /\ pc = "phase2"
    /\ nPhase1 >= 1
    /\ AllGenres \subseteq uncoveredGenres
    /\ Len(reRankedMovies) < recListSize
    /\ moviesToRerank # <<>>

\* C8: every Phase 1 selection has nGenres >= 1, so the covered genres grow
\* strictly with each Phase 1 selection; when no remaining row has a positive
\* nGenres, Phase 1 selects nothing more.
C8_PositiveCoverage ==
    /\ \A k \in 1..nPhase1 :
          /\ nGenres(reRankedMovies[k], coveredBefore(k)) >= 1
          /\ Cardinality(coveredBefore(k + 1)) > Cardinality(coveredBefore(k))
    /\ (pc = "phase1" /\ \A r \in Range(moviesToRerank) : nGenres(r, uncoveredGenres) = 0)
          => ~ENABLED Phase1Step

\* Phase 1 stopped with every remaining row at nGenres 0 and Phase 2 filled
\* the list.
C8_Witness ==
    /\ pc = "done"
    /\ nPhase1 >= 1
    /\ Len(reRankedMovies) > nPhase1
    /\ \A r \in Rows : candidates[r].Genres # {}

\* C9: on an input with unique titles, the rows Phase 2 has appended are in
\* non-increasing score order, and no row outside reRankedMovies has a higher
\* score than a row Phase 2 appended.
C9_FallbackOrder ==
    UniqueTitles =>
        \A i \in Phase2Positions :
            /\ \A j \in Phase2Positions :
                  i < j => score(reRankedMovies[i]) >= score(reRankedMovies[j])
            /\ \A r \in Rows \ Range(reRankedMovies) :
                  score(r) <= score(reRankedMovies[i])

\* Phase 1 picked a row other than the top-scored one and Phase 2 appended
\* two rows of different scores.
C9_Witness ==
    /\ UniqueTitles
    /\ pc = "done"
    /\ nPhase1 >= 1
    /\ reRankedMovies[1] # 1
    /\ \E i, j \in Phase2Positions :
          score(reRankedMovies[i]) > score(reRankedMovies[j])

\* C10: on a valid input, rows of equal score that Phase 2 appends are in
\* their original relative order of the candidate list.
C10_Phase2TiesOriginalOrder ==
    ValidInput =>
        \A i, j \in Phase2Positions :
            (i < j /\ score(reRankedMovies[i]) = score(reRankedMovies[j]))
                => reRankedMovies[i] < reRankedMovies[j]

\* C11: a row with an empty genre list is never selected by Phase 1, and on a
\* valid input whose rows all have empty genre lists the cell ends with the
\* first min(recListSize, |candidates|) rows in score order, all placed by
\* Phase 2.
C11_EmptyGenresPhase2Only ==
    /\ \A k \in 1..nPhase1 :
          /\ candidates[reRankedMovies[k]].Genres # {}
          /\ nGenres(reRankedMovies[k], coveredBefore(k)) # 0
    /\ (ValidInput /\ AllGenres = {} /\ Finished) =>
          /\ pc = "done"
          /\ nPhase1 = 0
          /\ Len(reRankedMovies) = Min(recListSize, Len(candidates))
          /\ \A i, j \in 1..Len(reRankedMovies) :
                i < j => score(reRankedMovies[i]) >= score(reRankedMovies[j])
          /\ \A i \in 1..Len(reRankedMovies) :
                \A r \in Rows \ Range(reRankedMovies) :
                    score(r) <= score(reRankedMovies[i])

\* C12: whenever the body of the while loop is about to run (the guard holds)
\* moviesToRerank has a row, so iloc[0] never raises IndexError: during Phase 1
\* every uncovered genre of the candidate list is a genre of a row still in
\* moviesToRerank.
C12_FrameNonEmptyInLoop ==
    /\ (pc = "phase1" /\ WhileGuard) => moviesToRerank # <<>>
    /\ exception # "IndexError"
    /\ pc = "phase1" =>
          \A g \in AllGenres \ uncoveredGenres :
              \E r \in Range(moviesToRerank) : g \in candidates[r].Genres

\* The loop body is about to run a second time or later, on the last row left.
C12_Witness ==
    /\ pc = "phase1"
    /\ WhileGuard
    /\ nPhase1 >= 1
    /\ Len(moviesToRerank) = 1

\* The number of Phase 1 iterations the claim C13 allows.
Phase1Bound ==
    Min(Min(recListSize, Len(candidates)), Cardinality(AllGenres))

\* C13: Phase 1 runs at most min(recListSize, |candidates|, number of genres
\* of the candidates) iterations (none when that is negative), Phase 2 visits
\* each row of moviesToRerank at most once, and when the cell has ended it has
\* ended normally, with the list, not with an exception.
C13_EndsWithSlate ==
    /\ nPhase1 <= (IF Phase1Bound < 0 THEN 0 ELSE Phase1Bound)
    /\ index <= Len(moviesToRerank)
    /\ Finished => (pc = "done" /\ exception = "none")

\* The termination part of C13 alone: under SpecFair every run of the cell
\* ends, normally or with an exception.
C13_Terminates == <>Finished

====
